---- MODULE Spec2Model ----
(***************************************************************************)
(* Model of firmware/nand_programmer.c: the command dispatcher, the        *)
(* erase / read / write / select / bad-block-scan handlers and the         *)
(* tick-driven poller of the asynchronous page write.                      *)
(*                                                                         *)
(* One action is one command drained by np_packet_handler (the whole       *)
(* handler, its loops included) or one call of np_nand_handler.  The       *)
(* flash driver, the transport, the chip directory and the bad block       *)
(* table are external: their return values are inputs chosen with \E.      *)
(*                                                                         *)
(* Sizes are scaled: the chips have pages of 2 and 4 bytes, the transport  *)
(* buffer holds 4 bytes and the write timeout ceiling is 2 polls.  The     *)
(* code compares against these values and never depends on their           *)
(* magnitude; the relations of the real values are kept (a write-data      *)
(* fragment never exceeds a page, the page buffer holds the largest page). *)
(***************************************************************************)
EXTENDS Integers, Sequences, FiniteSets, TLC

\* ------------------------------------------------------------------------
\* Program constants
\* ------------------------------------------------------------------------
NP_PACKET_BUF_SIZE == 4
NP_MAX_PAGE_SIZE == 4
NP_NAND_TIMEOUT == 2
WRITE_DATA_HDR == 2
RESP_HDR == 2

NP_CMD_NAND_READ_ID == 0
NP_CMD_NAND_ERASE == 1
NP_CMD_NAND_READ == 2
NP_CMD_NAND_WRITE_S == 3
NP_CMD_NAND_WRITE_D == 4
NP_CMD_NAND_WRITE_E == 5
NP_CMD_NAND_SELECT == 6
NP_CMD_NAND_READ_BB == 7
NP_CMD_NAND_LAST == 8

NP_ERR_INTERNAL == -1
NP_ERR_ADDR_EXCEEDED == -100
NP_ERR_ADDR_INVALID == -101
NP_ERR_ADDR_NOT_ALIGN == -102
NP_ERR_NAND_WR == -103
NP_ERR_NAND_RD == -104
NP_ERR_NAND_ERASE == -105
NP_ERR_CHIP_NOT_SEL == -106
NP_ERR_CHIP_NOT_FOUND == -107
NP_ERR_CMD_DATA_SIZE == -108
NP_ERR_CMD_INVALID == -109
NP_ERR_LEN_NOT_ALIGN == -111
NP_ERR_LEN_EXCEEDED == -112
NP_ERR_LEN_INVALID == -113

\* ------------------------------------------------------------------------
\* Bounds of the model
\* ------------------------------------------------------------------------
\* accepted sends after which the transport may start to refuse, per command
MaxOkSends == 1
\* driver calls of one erase / read / scan loop that may return not-ready
MaxDriverFaults == 1
\* opcodes past NP_CMD_NAND_LAST that the host may send
MaxBadOpcodes == 2
\* write sessions the host starts, chip-select commands it sends
MaxSessions == 1
MaxSelects == 1

NoFail == 99
NULL == 0

\* ------------------------------------------------------------------------
\* uint32_t arithmetic
\* ------------------------------------------------------------------------
\* The checker's integers are 32-bit signed, so a uint32_t value v is held as
\* the integer with the same 32 bits: v itself below 2^31 and v - 2^32 from
\* 2^31 on.  Arithmetic is done on the two 16-bit halves and wraps at 2^32.
H16 == 65536

Lo16(x) == x % H16

Hi16(x) == (x \div H16) % H16

U32(h, l) == (IF h >= 32768 THEN h - H16 ELSE h) * H16 + l

Add32(a, b) ==
    LET l == Lo16(a) + Lo16(b)
        h == Hi16(a) + Hi16(b) + (l \div H16)
    IN  U32(h % H16, l % H16)

Sub32(a, b) ==
    LET l == Lo16(a) - Lo16(b)
        h == Hi16(a) - Hi16(b) + (l \div H16)
    IN  U32(h % H16, l % H16)

\* a * b for a factor b below 2^15
Mul32(a, b) ==
    LET l == Lo16(a) * b
        h == Hi16(a) * b + (l \div H16)
    IN  U32(h % H16, l % H16)

\* a / b for a divisor b that is a power of two from 2 to 2^16
Div32(a, b) == Hi16(a) * (H16 \div b) + (Lo16(a) \div b)

Lt32(a, b) ==
    IF Hi16(a) # Hi16(b) THEN Hi16(a) < Hi16(b) ELSE Lo16(a) < Lo16(b)

Gt32(a, b) == Lt32(b, a)

Le32(a, b) == ~Lt32(b, a)

Ge32(a, b) == ~Lt32(a, b)

RECURSIVE BitAnd16(_, _)
BitAnd16(a, b) ==
    IF a = 0 \/ b = 0 THEN 0
    ELSE 2 * BitAnd16(a \div 2, b \div 2) + (IF a % 2 = 1 /\ b % 2 = 1 THEN 1 ELSE 0)

BitAnd(a, b) == U32(BitAnd16(Hi16(a), Hi16(b)), BitAnd16(Lo16(a), Lo16(b)))

\* (uint8_t) conversion of an int argument
U8(x) == x % 256

\* ------------------------------------------------------------------------
\* Chip directory (chip_db.h): index -> geometry
\* ------------------------------------------------------------------------
chip_db ==
    << [page_size |-> 4, block_size |-> 8, size |-> 16],
       [page_size |-> 2, block_size |-> 4, size |-> 8] >>

chip_select(chip_num) == IF chip_num \in DOMAIN chip_db THEN 0 ELSE -1

\* ------------------------------------------------------------------------
\* Driver status codes (fsmc_nand.h); NAND_OTHER is any value without a case
\* ------------------------------------------------------------------------
NAND_READY == "NAND_READY"
NAND_ERROR == "NAND_ERROR"
NAND_BUSY == "NAND_BUSY"
NAND_TIMEOUT_ERROR == "NAND_TIMEOUT_ERROR"
NAND_OTHER == "NAND_OTHER"

Status == {NAND_READY, NAND_ERROR, NAND_BUSY, NAND_TIMEOUT_ERROR, NAND_OTHER}

\* ------------------------------------------------------------------------
\* State
\* ------------------------------------------------------------------------
VARIABLES
    prog,    \* np_prog_t: the session state
    bbt,     \* bad block table: set of block start addresses
    tx,      \* send() calls of the last step, in order
    calls,   \* flash driver and bad block table calls of the last step
    last,    \* the command of the last step and its result
    sess,    \* history of the current write session
    wres,    \* how the latest asynchronous write was resolved
    fault    \* the core faulted in a memcpy outside the page buffer

vars == <<prog, bbt, tx, calls, last, sess, wres, fault>>

ZeroBuf == [i \in 1..NP_MAX_PAGE_SIZE |-> 0]

\* static np_prog_t prog: zero initialised
prog_init ==
    [addr |-> 0, len |-> 0, addr_is_set |-> 0,
     page |-> [buf |-> ZeroBuf, page |-> 0, offset |-> 0],
     bytes_written |-> 0, bytes_ack |-> 0,
     nand_wr_in_progress |-> 0, nand_timeout |-> 0,
     chip_info |-> NULL]

\* no write-start yet
sess_init ==
    [open |-> FALSE, addr |-> 0, len |-> 0, page_size |-> 0,
     sent |-> 0, failed |-> FALSE, clean |-> TRUE, split |-> FALSE,
     log |-> <<>>, prevAck |-> -1, lastAck |-> -1, starts |-> 0, selects |-> 0,
     busy |-> 0]

last_init == [op |-> "none", code |-> -1, addr |-> 0, len |-> 0, ret |-> 0,
              chip0 |-> NULL, chip_num |-> 0]

ChipInfo(p) == chip_db[p.chip_info]

\* the value of F at e, e being computed once (a local variable of the code)
Bind(e, F(_)) == CHOOSE y \in {F(x) : x \in {e}} : TRUE

\* ------------------------------------------------------------------------
\* Transport: send() number k of a command is accepted iff k <= nok
\* ------------------------------------------------------------------------
\* st is the state threaded through one handler:
\*   prog, bbt, sess, wres  the variables
\*   tx, calls              what the handler has sent and called so far
\*   nok                    sends the transport still accepts
\*   ret                    the handler's return value
\*   fault                  memcpy left the page buffer
comm_send(st, msg) ==
    [st EXCEPT !.tx = Append(@, [msg EXCEPT !.acc = (st.nok > 0)]),
               !.nok = IF st.nok > 0 /\ st.nok # NoFail THEN st.nok - 1 ELSE st.nok]

SendFailed(st) == st.nok = 0

\* a response: t its kind, v its value (error byte, address, byte count or
\* payload length); a data response also has the page and the offset of its
\* payload and whether send_ready() returned true right before it
Msg(t, v) == [t |-> t, v |-> v, a |-> 0, o |-> 0, rdy |-> FALSE, acc |-> TRUE]

Ret(st, r) == [st EXCEPT !.ret = r]

Call(st, c) == [st EXCEPT !.calls = Append(@, c)]

np_send_ok_status(st) == Ret(comm_send(st, Msg("ok", 0)), 0)

np_send_error(st, err_code) == comm_send(st, Msg("err", U8(err_code)))

np_send_bad_block_info(st, addr) ==
    Ret(comm_send(st, Msg("bb", addr)), IF SendFailed(st) THEN -1 ELSE 0)

np_send_write_ack(st, bytes_ack) ==
    Ret(comm_send(st, Msg("ack", bytes_ack)), IF SendFailed(st) THEN -1 ELSE 0)


\* a call of the flash driver or of the bad block table: c the function, a
\* its page or address argument, d the page data of a write or what a polled
\* driver function returned; a write has the resolution of the previous
\* write, the in-flight flag and the timeout counter at its issue
DCall(c, a, d, prev, flag) ==
    [c |-> c, a |-> a, d |-> d, prev |-> prev, flag |-> flag, tmo |-> 0]

\* a driver or table call that carries no data
PlainCall(st, c, a) == Call(st, DCall(c, a, <<>>, "", 0))

\* a driver call that returned r
RCall(st, c, a, r) == Call(st, DCall(c, a, r, "", 0))

\* memcpy(buf + off, ..., n) would write outside buf[NP_MAX_PAGE_SIZE]
OutsideBuf(off, n) ==
    \/ Gt32(off, NP_MAX_PAGE_SIZE)
    \/ Gt32(n, Sub32(NP_MAX_PAGE_SIZE, off))

\* memcpy(buf + off, src + from - 1, n) into the page buffer (from counts from 1)
memcpy_buf(buf, off, src, from, n) ==
    [i \in 1..NP_MAX_PAGE_SIZE |->
        IF off < i /\ i <= off + n THEN src[from + i - off - 1] ELSE buf[i]]

\* ------------------------------------------------------------------------
\* Asynchronous page write and its status polling
\* ------------------------------------------------------------------------
\* wres: "none" before the first asynchronous write, "pending" from its issue,
\* then how a status poll resolved it: "ready", "error", or the flag cleared
\* on "timeout" or on an "unknown" status; ready and error stay once seen
Resolve(w, how) == IF w \in {"ready", "error"} THEN w ELSE how

ClearWrite(st, how) ==
    [st EXCEPT !.prog.nand_wr_in_progress = 0, !.prog.nand_timeout = 0,
               !.wres = Resolve(@, how)]

\* np_nand_handle_status with a ready case that leaves the counter alone
np_nand_handle_status_keeps_count(st0, status) ==
    LET st == RCall(st0, "nand_read_status", 0, <<status>>) IN
    CASE status = NAND_ERROR ->
            LET s1 == np_send_bad_block_info([st EXCEPT !.wres = Resolve(@, "error")],
                                             st.prog.addr)
            IN  IF s1.ret # 0 THEN Ret(s1, -1)
                ELSE Ret(ClearWrite(s1, "error"), 0)
      [] status = NAND_READY ->
            Ret([st EXCEPT !.prog.nand_wr_in_progress = 0,
                           !.wres = Resolve(@, "ready")], 0)
      [] status = NAND_BUSY ->
            LET t == Add32(st.prog.nand_timeout, 1)
            IN  IF t = NP_NAND_TIMEOUT
                THEN Ret(ClearWrite(st, "timeout"), -1)
                ELSE Ret([st EXCEPT !.prog.nand_timeout = t], 0)
      [] OTHER -> Ret(ClearWrite(st, "unknown"), -1)

np_nand_handle_status(st0, status) ==
    LET st == RCall(st0, "nand_read_status", 0, <<status>>) IN
    CASE status = NAND_ERROR ->
            LET s1 == np_send_bad_block_info([st EXCEPT !.wres = Resolve(@, "error")],
                                             st.prog.addr)
            IN  IF s1.ret # 0 THEN Ret(s1, -1)
                ELSE Ret(ClearWrite(s1, "error"), 0)
      [] status = NAND_READY -> Ret(ClearWrite(st, "ready"), 0)
      [] status = NAND_BUSY ->
            LET t == Add32(st.prog.nand_timeout, 1)
            IN  IF t = NP_NAND_TIMEOUT
                THEN Ret(ClearWrite(st, "timeout"), -1)
                ELSE Ret([st EXCEPT !.prog.nand_timeout = t], 0)
      [] OTHER -> Ret(ClearWrite(st, "unknown"), -1)

\* the do-while of np_nand_write: the driver answers busy nbusy times, then final
RECURSIVE np_nand_wait(_, _, _)
np_nand_wait(st, nbusy, final) ==
    Bind(np_nand_handle_status(st, IF nbusy > 0 THEN NAND_BUSY ELSE final),
         LAMBDA r :
            IF r.ret # 0 THEN r
            ELSE IF r.prog.nand_wr_in_progress # 0
                 THEN np_nand_wait(r, nbusy - 1, final)
                 ELSE r)

nand_write_issue(st) ==
    Ret([Call(st, [DCall("nand_write_page_async", st.prog.page.page,
                         SubSeq(st.prog.page.buf, 1, ChipInfo(st.prog).page_size),
                         st.wres, st.prog.nand_wr_in_progress)
                      EXCEPT !.tmo = st.prog.nand_timeout])
            EXCEPT !.prog.nand_wr_in_progress = 1,
                   !.wres = "pending"], 0)

np_nand_write_no_wait(st, nbusy, final) == nand_write_issue(st)

np_nand_write(st, nbusy, final) ==
    Bind(IF st.prog.nand_wr_in_progress # 0
         THEN np_nand_wait(st, nbusy, final)
         ELSE Ret(st, 0), LAMBDA w :
            IF w.ret # 0 THEN Ret(w, -1)
            ELSE nand_write_issue(w))

\* ------------------------------------------------------------------------
\* Write: start / data / end
\* ------------------------------------------------------------------------
np_cmd_nand_write_start(st, cmd) ==
    LET addr == cmd.addr
        len == cmd.len
        ci == ChipInfo(st.prog)
    IN  IF Gt32(Add32(addr, len), ci.size) THEN Ret(st, NP_ERR_ADDR_EXCEEDED)
        ELSE IF BitAnd(addr, ci.page_size - 1) # 0
             THEN Ret(st, NP_ERR_ADDR_NOT_ALIGN)
        ELSE IF len = 0 THEN Ret(st, NP_ERR_LEN_INVALID)
        ELSE IF BitAnd(len, ci.page_size - 1) # 0
             THEN Ret(st, NP_ERR_ADDR_NOT_ALIGN)
        ELSE np_send_ok_status(
                [st EXCEPT !.prog.addr = addr, !.prog.len = len,
                           !.prog.addr_is_set = 1,
                           !.prog.page.page = Div32(addr, ci.page_size),
                           !.prog.page.offset = 0,
                           !.prog.bytes_written = 0,
                           !.prog.bytes_ack = 0])

\* np_cmd_nand_write_data: the bytes that did not fit the page go to the
\* start of the buffer
copy_left_from_start(st, cmd, write_len) ==
    LET bytes_left == Sub32(cmd.len, write_len)
    IN  IF bytes_left # 0
        THEN [st EXCEPT !.prog.page.buf = memcpy_buf(@, 0, cmd.data, 1, bytes_left),
                        !.prog.page.offset = Add32(@, bytes_left)]
        ELSE st

copy_left_no_offset(st, cmd, write_len) ==
    LET bytes_left == Sub32(cmd.len, write_len)
    IN  IF bytes_left # 0
        THEN [st EXCEPT !.prog.page.buf =
                            memcpy_buf(@, 0, cmd.data, write_len + 1, bytes_left)]
        ELSE st

copy_left(st, cmd, write_len) ==
    LET bytes_left == Sub32(cmd.len, write_len)
    IN  IF bytes_left # 0
        THEN [st EXCEPT !.prog.page.buf =
                            memcpy_buf(@, 0, cmd.data, write_len + 1, bytes_left),
                        !.prog.page.offset = Add32(@, bytes_left)]
        ELSE st

\* np_cmd_nand_write_data: a write ack is due
write_ack_due_page_only(p) ==
    Ge32(Sub32(p.bytes_written, p.bytes_ack), ChipInfo(p).page_size)

write_ack_due(p) ==
    \/ Ge32(Sub32(p.bytes_written, p.bytes_ack), ChipInfo(p).page_size)
    \/ p.bytes_written = p.len

\* np_cmd_nand_write_data: more bytes written than write-start declared
length_exceeded(p) == Gt32(p.bytes_written, p.len)

\* np_cmd_nand_write_data: the write ack and the check of the length
write_data_ack(s2) ==
    IF write_ack_due(s2.prog)
    THEN Bind(np_send_write_ack(s2, s2.prog.bytes_written), LAMBDA s3 :
            IF s3.ret # 0 THEN Ret(s3, -1)
            ELSE Ret([s3 EXCEPT !.prog.bytes_ack = s3.prog.bytes_written], 0))
    ELSE Ret(s2, 0)

\* the part of np_cmd_nand_write_data after the page commit
write_data_tail(st, cmd, write_len) ==
    Bind(copy_left(st, cmd, write_len), LAMBDA s1 :
    Bind(write_data_ack([s1 EXCEPT !.prog.bytes_written = Add32(@, cmd.len)]),
         LAMBDA s4 :
            IF s4.ret # 0 THEN s4
            ELSE IF length_exceeded(s4.prog)
                 THEN Ret(s4, NP_ERR_LEN_EXCEEDED)
                 ELSE Ret(s4, 0)))

\* np_cmd_nand_write_data: bytes of the command that go to the page buffer
write_len_of(p, len) ==
    IF Gt32(Add32(p.page.offset, len), ChipInfo(p).page_size)
    THEN Sub32(ChipInfo(p).page_size, p.page.offset)
    ELSE len

\* np_cmd_nand_write_data from the first memcpy on
write_data_fill(st, cmd, in, write_len) ==
    IF OutsideBuf(st.prog.page.offset, write_len)
    THEN [st EXCEPT !.fault = TRUE]
    ELSE
      Bind([st EXCEPT
              !.prog.page.buf =
                  memcpy_buf(@, st.prog.page.offset, cmd.data, 1, write_len),
              !.prog.page.offset = Add32(@, write_len)], LAMBDA s1 :
          IF s1.prog.page.offset = ChipInfo(s1.prog).page_size
          THEN Bind(np_nand_write(s1, in.nbusy, in.final), LAMBDA s2 :
                  IF s2.ret # 0 THEN Ret(s2, NP_ERR_NAND_WR)
                  ELSE write_data_tail(
                         [s2 EXCEPT
                            !.prog.addr = Add32(@, ChipInfo(s2.prog).page_size),
                            !.prog.page.page = Add32(@, 1),
                            !.prog.page.offset = 0],
                         cmd, write_len))
          ELSE write_data_tail(s1, cmd, write_len))

np_cmd_nand_write_data(st, cmd, in) ==
    IF cmd.len + WRITE_DATA_HDR > NP_PACKET_BUF_SIZE
    THEN Ret(st, NP_ERR_CMD_DATA_SIZE)
    ELSE IF st.prog.addr_is_set = 0 THEN Ret(st, NP_ERR_ADDR_INVALID)
    ELSE IF Ge32(st.prog.addr, ChipInfo(st.prog).size)
         THEN Ret(st, NP_ERR_ADDR_EXCEEDED)
    ELSE write_data_fill(st, cmd, in, write_len_of(st.prog, cmd.len))

\* np_cmd_nand_write_end that keeps the address valid on an incomplete page
np_cmd_nand_write_end_keeps_addr(st) ==
    IF st.prog.page.offset # 0 THEN Ret(st, NP_ERR_NAND_WR)
    ELSE np_send_ok_status([st EXCEPT !.prog.addr_is_set = 0])

np_cmd_nand_write_end(st) ==
    LET s1 == [st EXCEPT !.prog.addr_is_set = 0]
    IN  IF s1.prog.page.offset # 0 THEN Ret(s1, NP_ERR_NAND_WR)
        ELSE np_send_ok_status(s1)

np_cmd_nand_write(st, cmd, in) ==
    CASE cmd.code = NP_CMD_NAND_WRITE_S -> np_cmd_nand_write_start(st, cmd)
      [] cmd.code = NP_CMD_NAND_WRITE_D -> np_cmd_nand_write_data(st, cmd, in)
      [] cmd.code = NP_CMD_NAND_WRITE_E -> np_cmd_nand_write_end(st)
      [] OTHER -> Ret(st, 0)

\* ------------------------------------------------------------------------
\* Read id, chip select
\* ------------------------------------------------------------------------
np_cmd_nand_read_id(st) ==
    Ret(comm_send(PlainCall(st, "nand_read_id", 0), Msg("id", 0)), 0)

\* np_cmd_nand_select that keeps the chip when the index is unknown
np_cmd_nand_select_keeps_chip(st, cmd) ==
    IF chip_select(cmd.chip_num) = 0
    THEN np_send_ok_status(
            [PlainCall(PlainCall(st, "nand_init", 0), "nand_bad_block_table_init", 0)
                EXCEPT !.bbt = {}, !.prog.chip_info = cmd.chip_num])
    ELSE Ret(st, NP_ERR_CHIP_NOT_FOUND)

np_cmd_nand_select(st, cmd) ==
    IF chip_select(cmd.chip_num) = 0
    THEN np_send_ok_status(
            [PlainCall(PlainCall(st, "nand_init", 0), "nand_bad_block_table_init", 0)
                EXCEPT !.bbt = {}, !.prog.chip_info = cmd.chip_num])
    ELSE Ret([st EXCEPT !.prog.chip_info = NULL], NP_ERR_CHIP_NOT_FOUND)


\* ------------------------------------------------------------------------
\* Erase
\* ------------------------------------------------------------------------
\* np_nand_erase that gives up on a driver timeout
np_nand_erase_strict(st, page, status) ==
    LET addr == Mul32(page, ChipInfo(st.prog).page_size)
        s0 == RCall(st, "nand_erase_block", page, <<status>>)
    IN  CASE status = NAND_READY -> Ret(s0, 0)
          [] status = NAND_ERROR ->
                LET s1 == np_send_bad_block_info(s0, addr)
                IN  IF s1.ret # 0 THEN Ret(s1, -1) ELSE Ret(s1, 0)
          [] OTHER -> Ret(s0, -1)

np_nand_erase(st, page, status) ==
    LET addr == Mul32(page, ChipInfo(st.prog).page_size)
        s0 == RCall(st, "nand_erase_block", page, <<status>>)
    IN  CASE status = NAND_READY -> Ret(s0, 0)
          [] status = NAND_ERROR ->
                LET s1 == np_send_bad_block_info(s0, addr)
                IN  IF s1.ret # 0 THEN Ret(s1, -1) ELSE Ret(s1, 0)
          [] status = NAND_TIMEOUT_ERROR -> Ret(s0, 0)
          [] OTHER -> Ret(s0, -1)

nand_bad_block_table_lookup(st, addr) == addr \in st.bbt

\* number of calls of driver function c made so far by the handler
NCalls(st, c) == Cardinality({i \in DOMAIN st.calls : st.calls[i].c = c})

\* _np_cmd_nand_erase: the loop has left the chip
erase_addr_exceeded(addr, ci) == Ge32(addr, ci.size)

\* _np_cmd_nand_erase: a block the tracker lists is not erased
erase_skipped_never(is_bad) == FALSE

erase_skipped(is_bad) == is_bad

\* the while (len) loop of _np_cmd_nand_erase
RECURSIVE erase_loop(_, _, _, _, _, _)
erase_loop(st, cmd, in, addr, page, len) ==
    LET ci == ChipInfo(st.prog)
        pages_in_block == ci.block_size \div ci.page_size
    IN  IF len = 0 THEN np_send_ok_status(st)
        ELSE IF erase_addr_exceeded(addr, ci) THEN Ret(st, NP_ERR_ADDR_EXCEEDED)
        ELSE
          LET s0 == PlainCall(st, "nand_bad_block_table_lookup", addr)
              is_bad == nand_bad_block_table_lookup(st, addr)
              s1 == IF is_bad THEN np_send_bad_block_info(s0, addr) ELSE Ret(s0, 0)
          IN  IF is_bad /\ s1.ret # 0 THEN Ret(s1, -1)
              ELSE
                LET s2 == IF ~erase_skipped(is_bad)
                          THEN np_nand_erase(s1, page,
                                   in.sts[NCalls(s1, "nand_erase_block") + 1])
                          ELSE Ret(s1, 0)
                IN  IF ~erase_skipped(is_bad) /\ s2.ret # 0
                    THEN Ret(s2, NP_ERR_NAND_ERASE)
                    ELSE erase_loop(s2, cmd, in,
                            Add32(addr, ci.block_size),
                            Add32(page, pages_in_block),
                            IF ~is_bad \/ (is_bad /\ cmd.len = ci.size)
                            THEN Sub32(len, ci.block_size)
                            ELSE len)

_np_cmd_nand_erase(st, cmd, in) ==
    LET len == cmd.len
        addr == cmd.addr
        ci == ChipInfo(st.prog)
    IN  IF BitAnd(addr, ci.block_size - 1) # 0 THEN Ret(st, NP_ERR_ADDR_NOT_ALIGN)
        ELSE IF len = 0 THEN Ret(st, NP_ERR_LEN_INVALID)
        ELSE IF BitAnd(len, ci.block_size - 1) # 0 THEN Ret(st, NP_ERR_LEN_NOT_ALIGN)
        ELSE IF Gt32(Add32(addr, len), ci.size) THEN Ret(st, NP_ERR_ADDR_EXCEEDED)
        ELSE erase_loop(st, cmd, in, addr, Div32(addr, ci.page_size), len)

\* ------------------------------------------------------------------------
\* Read
\* ------------------------------------------------------------------------
np_nand_read(st, addr, page, status) ==
    LET s0 == RCall(st, "nand_read_page", page, <<status>>)
    IN  CASE status = NAND_READY -> Ret(s0, 0)
          [] status = NAND_ERROR ->
                LET s1 == np_send_bad_block_info(s0, addr)
                IN  IF s1.ret # 0 THEN Ret(s1, -1) ELSE Ret(s1, 0)
          [] status = NAND_TIMEOUT_ERROR -> Ret(s0, 0)
          [] OTHER -> Ret(s0, -1)

\* the chunks of one page, none cut to the size of the transport buffer
RECURSIVE read_chunks_uncut(_, _, _, _)
read_chunks_uncut(st, page, offset, len) ==
    LET ps == ChipInfo(st.prog).page_size
        w0 == Sub32(ps, offset)
        write_len == IF Gt32(w0, len) THEN len ELSE w0
    IN  IF ~(Lt32(offset, ps) /\ len # 0) THEN [Ret(st, 0) EXCEPT !.len = len]
        ELSE LET s1 == comm_send(st, [Msg("data", write_len) EXCEPT
                                         !.a = page, !.o = offset, !.rdy = TRUE])
             IN  IF SendFailed(st) THEN [Ret(s1, -1) EXCEPT !.len = len]
                 ELSE read_chunks_uncut(s1, page, Add32(offset, write_len),
                                        Sub32(len, write_len))

\* the inner while of _np_cmd_nand_read: the chunks of one page; the result
\* is the handler state with the remaining length in field len
RECURSIVE read_chunks(_, _, _, _)
read_chunks(st, page, offset, len) ==
    LET ps == ChipInfo(st.prog).page_size
        tx_data_len == NP_PACKET_BUF_SIZE - RESP_HDR
        w0 == IF Ge32(Sub32(ps, offset), tx_data_len) THEN tx_data_len
              ELSE Sub32(ps, offset)
        write_len == IF Gt32(w0, len) THEN len ELSE w0
    IN  IF ~(Lt32(offset, ps) /\ len # 0) THEN [Ret(st, 0) EXCEPT !.len = len]
        ELSE LET s1 == comm_send(st, [Msg("data", write_len) EXCEPT
                                         !.a = page, !.o = offset, !.rdy = TRUE])
             IN  IF SendFailed(st) THEN [Ret(s1, -1) EXCEPT !.len = len]
                 ELSE read_chunks(s1, page, Add32(offset, write_len),
                                  Sub32(len, write_len))

\* the outer while (len) of _np_cmd_nand_read
RECURSIVE read_loop(_, _, _, _, _)
read_loop(st, in, addr, page, len) ==
    LET ci == ChipInfo(st.prog)
    IN  IF len = 0 THEN Ret(st, 0)
        ELSE
          LET s1 == np_nand_read(st, addr, page,
                                 in.sts[NCalls(st, "nand_read_page") + 1])
          IN  IF s1.ret # 0 THEN Ret(s1, NP_ERR_NAND_RD)
              ELSE
                LET s2 == read_chunks(s1, page, 0, len)
                IN  IF s2.ret # 0 THEN Ret(s2, -1)
                    ELSE IF s2.len # 0
                         THEN IF Ge32(Add32(addr, ci.page_size), ci.size)
                              THEN Ret(s2, NP_ERR_ADDR_EXCEEDED)
                              ELSE read_loop(s2, in, Add32(addr, ci.page_size),
                                             Add32(page, 1), s2.len)
                         ELSE Ret(s2, 0)

_np_cmd_nand_read(st, cmd, in) ==
    LET addr == cmd.addr
        len == cmd.len
        ci == ChipInfo(st.prog)
    IN  IF Gt32(Add32(addr, len), ci.size) THEN Ret(st, NP_ERR_ADDR_EXCEEDED)
        ELSE IF BitAnd(addr, ci.page_size - 1) # 0 THEN Ret(st, NP_ERR_ADDR_NOT_ALIGN)
        ELSE IF len = 0 THEN Ret(st, NP_ERR_LEN_INVALID)
        ELSE IF BitAnd(len, ci.page_size - 1) # 0 THEN Ret(st, NP_ERR_LEN_NOT_ALIGN)
        ELSE read_loop(st, in, addr, Div32(addr, ci.page_size), len)

\* ------------------------------------------------------------------------
\* Bad block scan
\* ------------------------------------------------------------------------
NP_NAND_GOOD_BLOCK_MARK == 255

\* a table that forgets what is added
nand_bad_block_table_add_lost(st, addr) ==
    Ret(PlainCall(st, "nand_bad_block_table_add", addr), 0)

nand_bad_block_table_add(st, addr) ==
    Ret([PlainCall(st, "nand_bad_block_table_add", addr) EXCEPT !.bbt = @ \cup {addr}], 0)

\* the result has the out parameter *is_bad in field is_bad
np_read_bad_block_info_from_page(st, block, page, status, bad_block_data) ==
    LET addr == Mul32(block, ChipInfo(st.prog).block_size)
        s0 == RCall(st, "nand_read_data", page, <<status, bad_block_data>>)
    IN  IF status # NAND_READY THEN Ret(s0, NP_ERR_NAND_RD)
        ELSE IF bad_block_data # NP_NAND_GOOD_BLOCK_MARK
        THEN LET s1 == np_send_bad_block_info([s0 EXCEPT !.is_bad = TRUE], addr)
             IN  IF s1.ret # 0 THEN Ret(s1, -1)
                 ELSE LET s2 == nand_bad_block_table_add(s1, addr)
                      IN  IF s2.ret # 0 THEN Ret(s2, -1) ELSE Ret(s2, 0)
        ELSE Ret([s0 EXCEPT !.is_bad = FALSE], 0)

\* a scan that reads the second page of every block
RECURSIVE scan_loop_both_pages(_, _, _)
scan_loop_both_pages(st, in, block) ==
    LET ci == ChipInfo(st.prog)
        block_num == ci.size \div ci.block_size
        page_num == ci.block_size \div ci.page_size
        page == Mul32(block, page_num)
        k1 == NCalls(st, "nand_read_data") + 1
    IN  IF ~Lt32(block, block_num) THEN np_send_ok_status(st)
        ELSE
          LET s1 == np_read_bad_block_info_from_page(st, block, page,
                        in.sts[k1], in.marks[k1])
          IN  IF s1.ret # 0 THEN Ret(s1, -1)
              ELSE LET s2 == np_read_bad_block_info_from_page(s1, block,
                                 Add32(page, 1), in.sts[k1 + 1], in.marks[k1 + 1])
                   IN  IF s2.ret # 0 THEN Ret(s2, -1)
                       ELSE scan_loop_both_pages(s2, in, Add32(block, 1))

\* the for loop of _np_cmd_read_bad_blocks
RECURSIVE scan_loop(_, _, _)
scan_loop(st, in, block) ==
    LET ci == ChipInfo(st.prog)
        block_num == ci.size \div ci.block_size
        page_num == ci.block_size \div ci.page_size
        page == Mul32(block, page_num)
        k1 == NCalls(st, "nand_read_data") + 1
    IN  IF ~Lt32(block, block_num) THEN np_send_ok_status(st)
        ELSE
          LET s1 == np_read_bad_block_info_from_page(st, block, page,
                        in.sts[k1], in.marks[k1])
          IN  IF s1.ret # 0 THEN Ret(s1, -1)
              ELSE IF ~s1.is_bad
              THEN LET s2 == np_read_bad_block_info_from_page(s1, block,
                                 Add32(page, 1), in.sts[k1 + 1], in.marks[k1 + 1])
                   IN  IF s2.ret # 0 THEN Ret(s2, -1)
                       ELSE scan_loop(s2, in, Add32(block, 1))
              ELSE scan_loop(s1, in, Add32(block, 1))

_np_cmd_read_bad_blocks(st, in) == scan_loop(st, in, 0)

\* ------------------------------------------------------------------------
\* Dispatcher and poller
\* ------------------------------------------------------------------------
np_cmd_is_valid(code) == code >= 0 /\ code < NP_CMD_NAND_LAST

\* cmd_handler[cmd->code].exec(prog)
cmd_handler(st, cmd, in) ==
    CASE cmd.code = NP_CMD_NAND_READ_ID -> np_cmd_nand_read_id(st)
      [] cmd.code = NP_CMD_NAND_ERASE -> _np_cmd_nand_erase(st, cmd, in)
      [] cmd.code = NP_CMD_NAND_READ -> _np_cmd_nand_read(st, cmd, in)
      [] cmd.code \in {NP_CMD_NAND_WRITE_S, NP_CMD_NAND_WRITE_D, NP_CMD_NAND_WRITE_E}
            -> np_cmd_nand_write(st, cmd, in)
      [] cmd.code = NP_CMD_NAND_SELECT -> np_cmd_nand_select(st, cmd)
      [] cmd.code = NP_CMD_NAND_READ_BB -> _np_cmd_read_bad_blocks(st, in)

np_cmd_handler_valid_first(st, cmd, in) ==
    IF ~np_cmd_is_valid(cmd.code) THEN Ret(st, NP_ERR_CMD_INVALID)
    ELSE IF st.prog.chip_info = NULL /\ cmd.code # NP_CMD_NAND_SELECT
    THEN Ret(st, NP_ERR_CHIP_NOT_SEL)
    ELSE cmd_handler(st, cmd, in)

np_cmd_handler(st, cmd, in) ==
    IF st.prog.chip_info = NULL /\ cmd.code # NP_CMD_NAND_SELECT
    THEN Ret(st, NP_ERR_CHIP_NOT_SEL)
    ELSE IF ~np_cmd_is_valid(cmd.code) THEN Ret(st, NP_ERR_CMD_INVALID)
    ELSE cmd_handler(st, cmd, in)

\* one iteration of the loop of np_packet_handler, a command being pending
np_packet_handler_answers_all(st, cmd, in) ==
    Bind(np_cmd_handler(st, cmd, in), LAMBDA r :
        IF r.fault THEN r
        ELSE IF r.ret < 0 THEN np_send_error(r, -r.ret)
        ELSE IF r.tx = <<>> THEN np_send_ok_status(r)
        ELSE r)

\* one iteration of the loop of np_packet_handler, a command being pending
np_packet_handler(st, cmd, in) ==
    Bind(np_cmd_handler(st, cmd, in), LAMBDA r :
        IF r.fault THEN r
        ELSE IF r.ret < 0 THEN np_send_error(r, -r.ret)
        ELSE r)

np_nand_handler(st, status) ==
    IF st.prog.nand_wr_in_progress # 0
    THEN LET r == np_nand_handle_status(st, status)
         IN  IF r.ret # 0 THEN np_send_error(r, NP_ERR_NAND_WR) ELSE r
    ELSE st


\* ------------------------------------------------------------------------
\* Inputs
\* ------------------------------------------------------------------------
\* how many sends of a command the transport accepts
SendBudgets == (0..MaxOkSends) \cup {NoFail}

\* what erase-block, read-page and read-data may return (busy has no case of
\* its own in the handlers: it is one of the other values)
LoopStatusValues == Status \ {NAND_BUSY}

\* most driver calls one erase, read or scan makes on the chips of chip_db
MaxLoopCalls == 4

\* driver status of the k-th call of a loop, at most MaxDriverFaults not ready
LoopStatus ==
    {f \in [1..MaxLoopCalls -> LoopStatusValues] :
        Cardinality({i \in 1..MaxLoopCalls : f[i] # NAND_READY}) <= MaxDriverFaults}

AllReady == [i \in 1..MaxLoopCalls |-> NAND_READY]

AllGood == [i \in 1..MaxLoopCalls |-> NP_NAND_GOOD_BLOCK_MARK]

\* marker byte of the k-th read of a scan
Marks == [1..MaxLoopCalls -> {NP_NAND_GOOD_BLOCK_MARK, 0}]

NoInput == [nbusy |-> 0, final |-> NAND_READY, sts |-> AllReady, marks |-> AllGood]

LoopInputs(STS, MARKS) == {[NoInput EXCEPT !.sts = f, !.marks = m] : f \in STS, m \in MARKS}

\* the answers to the status polls of np_nand_write: busy nbusy times, then final
WaitInputs ==
    {[NoInput EXCEPT !.nbusy = n, !.final = f] :
        n \in 0..NP_NAND_TIMEOUT, f \in Status \ {NAND_BUSY}}

Cmd(code, addr, len) ==
    [code |-> code, addr |-> addr, len |-> len, chip_num |-> 0, data |-> <<>>]

\* ------------------------------------------------------------------------
\* History of the write session
\* ------------------------------------------------------------------------
WriteCalls(cs) == SelectSeq(cs, LAMBDA c : c.c = "nand_write_page_async")

AckMsgs(ms) == SelectSeq(ms, LAMBDA m : m.t = "ack")

\* sess: what the host and the flash saw of the write session in progress
\*   open       a write-start succeeded and no write-end followed
\*   addr, len  the arguments of that write-start; page_size: the chip's then
\*   sent       bytes of the write-data commands since (of a valid size)
\*   failed     one of these write-data commands returned an error
\*   clean      no chip-select command since the write-start
\*   split      one of these write-data commands filled a page and had bytes left
\*   log        the pages handed to nand_write_page_async since, in order
\*   lastAck, prevAck   the last write ack since and the one before (-1: none)
\*   starts, selects    successful write-starts and chip-select commands so far
\*   busy       status polls answered busy since the latest page write was issued
sess_cmd(s, cmd, r) ==
    IF r.fault \/ r.ret = NP_ERR_CHIP_NOT_SEL THEN s
    ELSE IF cmd.code = NP_CMD_NAND_WRITE_S /\ r.ret = 0
    THEN [open |-> TRUE, addr |-> cmd.addr, len |-> cmd.len,
          page_size |-> ChipInfo(r.prog).page_size,
          sent |-> 0, failed |-> FALSE, clean |-> TRUE, split |-> FALSE,
          log |-> <<>>, prevAck |-> -1, lastAck |-> -1,
          starts |-> s.starts + 1, selects |-> s.selects, busy |-> s.busy]
    ELSE IF cmd.code = NP_CMD_NAND_WRITE_D
    THEN LET ws == WriteCalls(r.calls)
             as == AckMsgs(r.tx)
             counted == s.open /\ r.ret # NP_ERR_CMD_DATA_SIZE
         IN  [s EXCEPT !.sent = IF counted THEN @ + cmd.len ELSE @,
                       !.failed = @ \/ r.ret # 0,
                       !.split = @ \/ (ws # <<>> /\ r.prog.page.offset # 0),
                       !.log = @ \o [i \in DOMAIN ws |-> [page |-> ws[i].a, d |-> ws[i].d]],
                       !.prevAck = IF as # <<>> THEN s.lastAck ELSE @,
                       !.lastAck = IF as # <<>> THEN as[Len(as)].v ELSE @]
    ELSE IF cmd.code = NP_CMD_NAND_WRITE_E THEN [s EXCEPT !.open = FALSE]
    ELSE IF cmd.code = NP_CMD_NAND_SELECT
    THEN [s EXCEPT !.clean = FALSE, !.selects = @ + 1]
    ELSE s

\* the busy answers since the latest issue, b of them before the calls cs
RECURSIVE BusyAfter(_, _)
BusyAfter(b, cs) ==
    IF cs = <<>> THEN b
    ELSE BusyAfter(IF Head(cs).c = "nand_write_page_async" THEN 0
                   ELSE IF Head(cs).c = "nand_read_status" /\ Head(cs).d = <<NAND_BUSY>>
                        THEN b + 1
                        ELSE b,
                   Tail(cs))

sess_next(s, cmd, r) ==
    [sess_cmd(s, cmd, r) EXCEPT !.busy = BusyAfter(s.busy, r.calls)]

\* ------------------------------------------------------------------------
\* Actions
\* ------------------------------------------------------------------------
St0(nok) ==
    [prog |-> prog, bbt |-> bbt, wres |-> wres, tx |-> <<>>, calls |-> <<>>,
     nok |-> nok, ret |-> 0, fault |-> FALSE, is_bad |-> FALSE, len |-> 0]

\* np_packet_handler drains one command
Packet(op, cmd, in, nok) ==
    \E r \in {np_packet_handler(St0(nok), cmd, in)} :
        /\ ~fault
        /\ prog' = r.prog
        /\ bbt' = r.bbt
        /\ wres' = r.wres
        /\ tx' = r.tx
        /\ calls' = r.calls
        /\ fault' = r.fault
        /\ last' = [op |-> op, code |-> cmd.code, addr |-> cmd.addr,
                    len |-> cmd.len, ret |-> r.ret, chip0 |-> prog.chip_info,
                    chip_num |-> cmd.chip_num]
        /\ sess' = sess_next(sess, cmd, r)

\* The driver's answers are inputs of a command only if its handler asks the
\* driver: a command that is rejected before its first driver call has none.
DriverInputs(cmd, DRV) ==
    IF np_packet_handler(St0(NoFail), cmd, NoInput).calls = <<>> THEN {NoInput} ELSE DRV

\* The transport's refusals are inputs of a command only if its handler makes
\* a send whose result it reads (bad block info, write ack, data).
Checked(m) == m.t \in {"bb", "ack", "data"}

Budgets(r, NOK) ==
    IF \E i \in DOMAIN r.tx : Checked(r.tx[i]) THEN NOK ELSE {NoFail}

\* np_packet_handler drains command cmd, the driver answering from DRV and
\* the transport accepting a number of sends from NOK
Command(op, cmd, DRV, NOK) ==
    \E in \in DriverInputs(cmd, DRV) :
        \E nok \in Budgets(np_packet_handler(St0(NoFail), cmd, in), NOK) :
            Packet(op, cmd, in, nok)

ReadId ==
    /\ ~fault
    /\ Command("read_id", Cmd(NP_CMD_NAND_READ_ID, 0, 0), {NoInput}, {NoFail})

Erase(AL, STS, NOK) ==
    \E al \in AL :
        /\ ~fault
        /\ Command("erase", Cmd(NP_CMD_NAND_ERASE, al[1], al[2]),
                   LoopInputs(STS, {AllGood}), NOK)

Read(AL, STS, NOK) ==
    \E al \in AL :
        /\ ~fault
        /\ Command("read", Cmd(NP_CMD_NAND_READ, al[1], al[2]),
                   LoopInputs(STS, {AllGood}), NOK)

WriteStart(AL, MAXSESSIONS) ==
    \E al \in AL :
        /\ sess.starts < MAXSESSIONS
        /\ Command("write_start", Cmd(NP_CMD_NAND_WRITE_S, al[1], al[2]),
                   {NoInput}, {NoFail})

\* the host sends the bytes of its stream in order: byte i has value i
WriteData(LENS, MAXSENT, DRV, NOK) ==
    \E len \in LENS :
        /\ sess.sent + len <= MAXSENT
        /\ Command("write_data",
                   [Cmd(NP_CMD_NAND_WRITE_D, 0, len) EXCEPT
                       !.data = [i \in 1..len |-> sess.sent + i]],
                   DRV, NOK)

WriteEnd ==
    /\ ~fault
    /\ Command("write_end", Cmd(NP_CMD_NAND_WRITE_E, 0, 0), {NoInput}, {NoFail})

Select(MAXSELECTS) ==
    \E chip_num \in 1..(Len(chip_db) + 1) :
        /\ sess.selects < MAXSELECTS
        /\ Command("select",
                   [Cmd(NP_CMD_NAND_SELECT, 0, 0) EXCEPT !.chip_num = chip_num],
                   {NoInput}, {NoFail})

ReadBadBlocks(STS, MARKS, NOK) ==
    /\ ~fault
    /\ Command("read_bb", Cmd(NP_CMD_NAND_READ_BB, 0, 0),
               LoopInputs(STS, MARKS), NOK)

InvalidCmd ==
    \E code \in NP_CMD_NAND_LAST..(NP_CMD_NAND_LAST + MaxBadOpcodes - 1) :
        /\ ~fault
        /\ Command("invalid", Cmd(code, 0, 0), {NoInput}, {NoFail})

\* np_nand_handler, once per call of np_handler
Tick(NOK) ==
    \E status \in Status :
      \E nok \in Budgets(np_nand_handler(St0(NoFail), status), NOK) :
        \E r \in {np_nand_handler(St0(nok), status)} :
            /\ ~fault
            /\ prog' = r.prog
            /\ wres' = r.wres
            /\ tx' = r.tx
            /\ calls' = r.calls
            /\ last' = [op |-> "tick", code |-> -1, addr |-> 0, len |-> 0,
                        ret |-> r.ret, chip0 |-> prog.chip_info, chip_num |-> 0]
            /\ sess' = [sess EXCEPT !.busy = BusyAfter(@, r.calls)]
            /\ UNCHANGED <<bbt, fault>>

Init ==
    /\ prog = prog_init
    /\ bbt = {}
    /\ tx = <<>>
    /\ calls = <<>>
    /\ last = last_init
    /\ sess = sess_init
    /\ wres = "none"
    /\ fault = FALSE

\* ------------------------------------------------------------------------
\* Specifications
\* ------------------------------------------------------------------------
\* bytes the host sends in one write session
MaxSent == 6

FragLens == 0..(NP_PACKET_BUF_SIZE - WRITE_DATA_HDR + 1)

\* The write pipeline: sessions of one or two pages on both chips, every
\* fragmentation, every answer of the driver to the status polls
WriteSessions == {<<0, 4>>, <<4, 4>>, <<0, 1>>, <<Sub32(0, 4), 4>>}

NextW ==
    \/ Select(MaxSelects)
    \/ WriteStart(WriteSessions, MaxSessions)
    \/ WriteData(FragLens, MaxSent, WaitInputs, SendBudgets)
    \/ WriteEnd
    \/ Tick(SendBudgets)

SpecW == Init /\ [][NextW]_vars


\* Validation, erase and scan: aligned and misaligned requests, requests
\* beyond the chip and requests whose 32-bit sum addr + len wraps around
Requests ==
    {<<0, 4>>, <<4, 4>>, <<0, 8>>, <<8, 8>>, <<0, 16>>,
     <<0, 0>>, <<1, 4>>, <<0, 1>>, <<8, 16>>, <<Sub32(0, 4), 4>>}

WrapRequests == {<<4, Sub32(0, 4)>>, <<8, Sub32(0, 8)>>}

\* the driver fails the first call of a command or none
FirstFault == {f \in LoopStatus : \A i \in 2..MaxLoopCalls : f[i] = NAND_READY}

\* the transport refuses every send of a command or none
AllOrNone == {0, NoFail}

NextV ==
    \/ Select(MaxSelects)
    \/ ReadBadBlocks({AllReady}, Marks, {NoFail})
    \/ Erase(Requests \cup WrapRequests, FirstFault, AllOrNone)
    \/ Read(Requests, FirstFault, AllOrNone)
    \/ WriteStart(Requests \cup WrapRequests, MaxSessions)

SpecV == Init /\ [][NextV]_vars

\* Chip switching: the host selects another chip between the commands of a
\* write session
MaxSwitches == 3

SwitchLens == 1..(NP_PACKET_BUF_SIZE - WRITE_DATA_HDR)

NextS ==
    \/ Select(MaxSwitches)
    \/ WriteStart({<<0, 4>>}, MaxSessions)
    \/ WriteData(SwitchLens, MaxSent, {NoInput}, {NoFail})
    \/ WriteEnd
    \/ Tick({NoFail})

SpecS == Init /\ [][NextS]_vars

\* The bad block scan: every marker, a driver failure at any read, the
\* transport refusing from any response on
NextB ==
    \/ Select(MaxSelects)
    \/ ReadBadBlocks(LoopStatus, Marks, SendBudgets)

SpecB == Init /\ [][NextB]_vars

\* the status polls of np_nand_write answered at once
WaitOnce == {in \in WaitInputs : in.nbusy = 0}

\* The dispatcher with a failing driver and a refusing transport
NextD ==
    \/ ReadId
    \/ Select(MaxSelects)
    \/ ReadBadBlocks({AllReady}, {[AllGood EXCEPT ![1] = 0]}, AllOrNone)
    \/ Erase({<<0, 8>>}, FirstFault, AllOrNone)
    \/ Read({<<0, 4>>}, FirstFault, AllOrNone)
    \/ WriteStart({<<0, 4>>}, MaxSessions)
    \/ WriteData({2}, MaxSent, WaitOnce, AllOrNone)
    \/ WriteEnd
    \/ InvalidCmd
    \/ Tick({NoFail})

SpecD == Init /\ [][NextD]_vars

\* Chip selection: the host selects a chip again, a known or an unknown one,
\* between the commands
MaxReselects == 2

NextC ==
    \/ Select(MaxReselects)
    \/ ReadId
    \/ ReadBadBlocks({AllReady}, {AllGood, [AllGood EXCEPT ![1] = 0]}, {NoFail})
    \/ Erase({<<0, 8>>, <<0, 4>>}, FirstFault, {NoFail})
    \/ Read({<<0, 4>>}, {AllReady}, {NoFail})
    \/ WriteStart({<<0, 4>>}, MaxSessions)
    \/ InvalidCmd

SpecC == Init /\ [][NextC]_vars

\* The dispatcher: every command and the poller
Next ==
    \/ ReadId
    \/ Select(MaxSelects)
    \/ ReadBadBlocks({AllReady}, {AllGood, [AllGood EXCEPT ![1] = 0]}, {NoFail})
    \/ Erase({<<0, 8>>}, {AllReady}, {NoFail})
    \/ Read({<<0, 4>>}, {AllReady}, {NoFail})
    \/ WriteStart({<<0, 4>>}, MaxSessions)
    \/ WriteData({2}, MaxSent, {NoInput}, {NoFail})
    \/ WriteEnd
    \/ InvalidCmd
    \/ Tick({NoFail})

Spec == Init /\ [][Next]_vars

\* ------------------------------------------------------------------------
\* Properties
\* ------------------------------------------------------------------------
RECURSIVE Flatten(_)
Flatten(log) == IF log = <<>> THEN <<>> ELSE Head(log).d \o Flatten(Tail(log))

\* bytes of the pages handed to the flash write path since the write-start
CommittedBytes == Len(Flatten(sess.log))

WritesOf(cs) == {i \in DOMAIN cs : cs[i].c = "nand_write_page_async"}

AcksOf(ms) == {i \in DOMAIN ms : ms[i].t = "ack"}

\* C1 as claimed: an asynchronous page write is issued only if every earlier
\* one was answered ready or error by a status poll.
C1_Original ==
    \A i \in WritesOf(calls) : calls[i].prev \in {"none", "ready", "error"}

\* C1 as amended: an asynchronous page write is issued only with the in-flight
\* flag clear: after the issue of the previous one a status poll cleared the
\* flag, answering ready or error, or an unknown status, or busy for the
\* NP_NAND_TIMEOUT-th time.
C1_IssuedWithFlagClear ==
    \A i \in WritesOf(calls) : calls[i].flag = 0 /\ calls[i].prev # "pending"

\* a write-data command polled the previous write until ready, then issued
C1_Witness ==
    \E i, j \in DOMAIN calls :
        /\ i < j
        /\ calls[i].c = "nand_read_status"
        /\ calls[j].c = "nand_write_page_async"
        /\ calls[j].prev = "ready"
        /\ Len(sess.log) >= 2

\* C6: after a successful write-start and any sequence of write-data
\* commands, those that return an error included, bytes_written is at most
\* the declared length.
C6_BytesWrittenWithinLength ==
    (sess.starts > 0 /\ sess.clean) => Le32(prog.bytes_written, prog.len)

\* C7 as claimed: a write ack never exceeds the bytes of the pages handed to
\* the flash write path and is a multiple of the page size.
C7_Original ==
    \A i \in AcksOf(tx) :
        tx[i].acc =>
        /\ tx[i].v <= ChipInfo(prog).page_size * Len(sess.log)
        /\ tx[i].v % ChipInfo(prog).page_size = 0

\* C7 as amended: a write ack carries bytes_written, the bytes received since
\* the write-start, which never exceed the bytes handed to the flash write
\* path plus the bytes in the page buffer.
C7_AckIsBytesReceived ==
    \A i \in AcksOf(tx) :
        /\ tx[i].v = prog.bytes_written
        /\ tx[i].v <= CommittedBytes + prog.page.offset

\* an ack that covers a byte still in the page buffer
C7_Witness ==
    \E i \in AcksOf(tx) :
        /\ tx[i].acc
        /\ prog.page.offset > 0
        /\ tx[i].v = CommittedBytes + prog.page.offset
        /\ CommittedBytes > 0

\* the write-data commands since the write-start carried the declared length
SessionComplete == sess.open /\ sess.clean /\ sess.sent = sess.len

\* the range declared at write-start lies within the chip
SessionInRange ==
    /\ sess.addr >= 0
    /\ sess.addr <= ChipInfo(prog).size
    /\ sess.len >= 0
    /\ sess.len <= ChipInfo(prog).size - sess.addr

PagesAsSent ==
    /\ \A i \in DOMAIN sess.log :
           sess.log[i].page = Div32(sess.addr, sess.page_size) + i - 1
    /\ Flatten(sess.log) = [i \in 1..sess.len |-> i]

Chip0 == chip_db[last.chip0]

Ranged == last.op \in {"erase", "read", "write_start"} /\ last.chip0 # NULL

\* erase is validated against the block size, read and write-start against
\* the page size
Align == IF last.op = "erase" THEN Chip0.block_size ELSE Chip0.page_size

AddrMisaligned == last.addr % Align # 0

LenZero == last.len = 0

LenMisaligned == last.len % Align # 0

\* the mathematical sum addr + len of the two unsigned values exceeds the chip
Exceeds ==
    \/ Gt32(last.addr, Chip0.size)
    \/ Gt32(last.len, Sub32(Chip0.size, last.addr))

\* the 32-bit sum addr + len wraps around
Wraps == Lt32(Add32(last.addr, last.len), last.addr)

ValidRequest == Ranged /\ ~AddrMisaligned /\ ~LenZero /\ ~LenMisaligned /\ ~Exceeds

ErasesOf(cs) == {i \in DOMAIN cs : cs[i].c = "nand_erase_block"}

\* start address of the block of an erase call
ErasedAddr(c) == Mul32(c.a, Chip0.page_size)

InRequest(a) == last.addr <= a /\ a < last.addr + last.len

\* C2 as claimed: a valid erase request erases only blocks that start in
\* [addr, addr+len), whatever the bad-block tracker holds.
C2_Original ==
    (last.op = "erase" /\ ValidRequest)
        => \A i \in ErasesOf(calls) : InRequest(ErasedAddr(calls[i]))

\* C2 as amended: a valid erase request erases only blocks of the chip from
\* addr on that the tracker does not list, at most len / block_size of them;
\* they all start in [addr, addr+len) when the tracker lists no block of
\* that range or when len is the chip size.
C2_EraseRange ==
    (last.op = "erase" /\ ValidRequest)
        => /\ \A i \in ErasesOf(calls) :
                  LET a == ErasedAddr(calls[i])
                  IN  /\ last.addr <= a /\ a < Chip0.size
                      /\ a % Chip0.block_size = 0
                      /\ a \notin bbt
                      /\ ((\A b \in bbt : ~InRequest(b)) \/ last.len = Chip0.size)
                            => InRequest(a)
           /\ Cardinality(ErasesOf(calls)) * Chip0.block_size <= last.len

\* a partial erase skipped a block the tracker lists and erased the next one,
\* which lies beyond the requested range
C2_Witness ==
    /\ last.op = "erase"
    /\ ValidRequest
    /\ last.ret = 0
    /\ \E b \in bbt : InRequest(b)
    /\ \E i \in ErasesOf(calls) : ~InRequest(ErasedAddr(calls[i]))

\* C4 (for requests whose sum addr + len does not wrap around): an erase,
\* read or write-start request that breaks exactly one validation rule is
\* answered with the error code of that rule.
C4_OwnErrorCode ==
    (Ranged /\ ~Wraps)
        => /\ (AddrMisaligned /\ ~LenZero /\ ~LenMisaligned /\ ~Exceeds)
                  => last.ret = NP_ERR_ADDR_NOT_ALIGN
           /\ (~AddrMisaligned /\ LenZero /\ ~Exceeds)
                  => last.ret = NP_ERR_LEN_INVALID
           /\ (~AddrMisaligned /\ ~LenZero /\ LenMisaligned /\ ~Exceeds)
                  => last.ret = NP_ERR_LEN_NOT_ALIGN
           /\ (~AddrMisaligned /\ ~LenZero /\ ~LenMisaligned /\ Exceeds)
                  => last.ret = NP_ERR_ADDR_EXCEEDED

HardwareCalls ==
    {i \in DOMAIN calls :
        calls[i].c \in {"nand_erase_block", "nand_read_page", "nand_write_page_async"}}

\* C5: an erase, read or write-start request whose mathematical sum
\* addr + len exceeds the chip size, the wrap-around of the 32-bit sum
\* included, is rejected without an erase, page read or page write, and a
\* write-start so rejected leaves the write cursor and declared length alone.
C5_ExceedingRejected ==
    (Ranged /\ Exceeds)
        => /\ last.ret < 0
           /\ HardwareCalls = {}
           /\ last.op = "write_start"
                  => ~(prog.addr = last.addr /\ prog.len = last.len
                       /\ prog.addr_is_set = 1 /\ sess.open)


ChipNotSelected ==
    <<[Msg("err", -NP_ERR_CHIP_NOT_SEL) EXCEPT !.acc = TRUE]>>

\* C3: while no chip is selected, a command whose opcode is not chip-select,
\* opcodes outside the valid range included, is answered with the chip not
\* selected error alone and runs no handler: it calls neither the flash
\* driver nor the bad-block tracker and leaves the session state unchanged.
C3_NoChipNoHandler ==
    [][(prog.chip_info = NULL /\ last'.op \notin {"select", "tick"})
          => /\ tx' = ChipNotSelected
             /\ last'.ret = NP_ERR_CHIP_NOT_SEL
             /\ calls' = <<>>
             /\ prog' = prog
             /\ bbt' = bbt]_vars

\* a command with an opcode outside the valid range arrived after a failed
\* chip-select had cleared the chip and was answered chip not selected
C3_Witness ==
    /\ last.op = "invalid"
    /\ last.chip0 = NULL
    /\ sess.selects > 0
    /\ tx = ChipNotSelected

\* C10: while a chip is selected the fill offset of the page buffer is at
\* most the page size of that chip, and a write-data command that succeeds
\* leaves it below the page size, having handed every full buffer to the
\* flash write path; no command copies outside the page buffer.
C10_OffsetWithinPage ==
    /\ ~fault
    /\ prog.chip_info # NULL
          => /\ Le32(prog.page.offset, ChipInfo(prog).page_size)
             /\ (last.op = "write_data" /\ last.ret = 0)
                   => Lt32(prog.page.offset, ChipInfo(prog).page_size)


\* ------------------------------------------------------------------------
\* The poller, the timeout counter and the end of the write session
\* ------------------------------------------------------------------------
OkMsg == <<[Msg("ok", 0) EXCEPT !.acc = TRUE]>>

ErrMsg(code) == <<[Msg("err", -code) EXCEPT !.acc = TRUE]>>

BadBlocksOf(ms) == {i \in DOMAIN ms : ms[i].t = "bb"}

\* address of the page of the latest asynchronous write
InFlightAddr == Mul32(sess.log[Len(sess.log)].page, sess.page_size)

\* C13: a bad-block response sent for a status poll that answered error (by
\* the poller or by the wait of a write-data command) carries the address of
\* the page whose write is in flight.
C13_BadBlockOfInFlightPage ==
    [][\A i \in BadBlocksOf(tx') :
          last'.op \in {"tick", "write_data"}
              => /\ sess.log # <<>>
                 /\ tx'[i].v = InFlightAddr]_vars

\* the step ended in a status poll: no page write was issued after it
PollEnded == calls # <<>> /\ calls[Len(calls)].c = "nand_read_status"

LastAnswer == calls[Len(calls)].d[1]

\* the bad-block response of that poll was accepted by the transport
LastBadBlockAccepted ==
    \E i \in BadBlocksOf(tx) :
        /\ tx[i].acc
        /\ \A j \in BadBlocksOf(tx) : j <= i

WriteCleared == prog.nand_wr_in_progress = 0 /\ prog.nand_timeout = 0

\* the counter is zero at every issue, counts the busy polls since the issue
\* while the write is in flight, and the poll that makes them
\* NP_NAND_TIMEOUT, and no other busy poll, aborts the write
TimeoutCounts ==
    /\ \A i \in WritesOf(calls) : calls[i].tmo = 0
    /\ sess.busy <= NP_NAND_TIMEOUT
    /\ prog.nand_wr_in_progress # 0
          => prog.nand_timeout = sess.busy /\ sess.busy < NP_NAND_TIMEOUT
    /\ (PollEnded /\ LastAnswer = NAND_BUSY)
          => /\ (last.ret # 0) <=> (sess.busy = NP_NAND_TIMEOUT)
             /\ (last.ret # 0) => WriteCleared

\* C14 as claimed: the timeout counter is zero at every issue and counts the
\* busy polls since; the write is aborted exactly when they reach the
\* ceiling; a poll that answers ready or error clears flag and counter.
C14_Original ==
    /\ TimeoutCounts
    /\ (PollEnded /\ LastAnswer \in {NAND_READY, NAND_ERROR}) => WriteCleared

\* C14 as amended: the same, a poll that answers an unknown status clearing
\* flag and counter too, and a poll that answers error clearing them only if
\* the transport accepts its bad-block response; if the transport refuses
\* it, the write stays in flight with its counter as it was.
C14_TimeoutCounter ==
    /\ TimeoutCounts
    /\ (PollEnded /\ LastAnswer = NAND_READY) => WriteCleared
    /\ (PollEnded /\ LastAnswer \in {NAND_TIMEOUT_ERROR, NAND_OTHER})
          => WriteCleared /\ last.ret # 0
    /\ (PollEnded /\ LastAnswer = NAND_ERROR)
          => IF LastBadBlockAccepted THEN WriteCleared
             ELSE /\ prog.nand_wr_in_progress # 0
                  /\ prog.nand_timeout = sess.busy
                  /\ last.ret # 0

\* a write-data command waited for the previous write, which the poller had
\* seen busy before, and its poll was the busy answer that reached the ceiling
C14_Witness ==
    /\ last.op = "write_data"
    /\ PollEnded
    /\ LastAnswer = NAND_BUSY
    /\ Len(calls) < NP_NAND_TIMEOUT
    /\ sess.busy = NP_NAND_TIMEOUT
    /\ WriteCleared
    /\ last.ret = NP_ERR_NAND_WR

\* C15: every error-status response carries the negation of a negative
\* result: that of the handler when the dispatcher sends it, and
\* NP_ERR_NAND_WR when the poller reports a fatal write error.
C15_ErrorByteIsNegatedCode ==
    \A i \in DOMAIN tx :
        tx[i].t = "err"
            => IF last.op = "tick" THEN tx[i].v = -NP_ERR_NAND_WR
               ELSE last.ret < 0 /\ tx[i].v = -last.ret

\* what a write-end command does on a selected chip
WriteEndStep ==
    (last'.op = "write_end" /\ prog.chip_info # NULL)
        => /\ (last'.ret = 0) <=> (prog.page.offset = 0)
           /\ tx' = IF last'.ret = 0 THEN OkMsg ELSE ErrMsg(NP_ERR_NAND_WR)
           /\ calls' = <<>>
           /\ prog' = [prog EXCEPT !.addr_is_set = 0]

\* C18 as claimed: write-end replies ok iff the fill offset is zero, writes
\* nothing and clears the address-valid flag; every write-data command after
\* it is answered invalid address, copies nothing and writes nothing.
C18_Original ==
    [][/\ WriteEndStep
       /\ (last'.op = "write_data" /\ ~sess.open /\ sess.starts > 0
              /\ prog.chip_info # NULL)
             => /\ last'.ret = NP_ERR_ADDR_INVALID
                /\ calls' = <<>>
                /\ prog' = prog]_vars

\* C18 as amended: the same, a write-data command after the write-end being
\* answered payload size invalid if its length does not fit the transport
\* buffer and invalid address otherwise.
C18_WriteEndClosesSession ==
    [][/\ WriteEndStep
       /\ (last'.op = "write_data" /\ ~sess.open /\ prog.chip_info # NULL)
             => /\ last'.ret =
                       IF last'.len + WRITE_DATA_HDR > NP_PACKET_BUF_SIZE
                       THEN NP_ERR_CMD_DATA_SIZE
                       ELSE NP_ERR_ADDR_INVALID
                /\ tx' = ErrMsg(last'.ret)
                /\ calls' = <<>>
                /\ prog' = prog]_vars

\* a write-data command that fits the buffer was answered invalid address
\* after a write-end had ended a session with an incomplete page
C18_Witness ==
    /\ last.op = "write_data"
    /\ last.ret = NP_ERR_ADDR_INVALID
    /\ sess.starts > 0
    /\ ~sess.open
    /\ prog.page.offset # 0
    /\ prog.addr_is_set = 0


\* ------------------------------------------------------------------------
\* The erase loop, the tracker and the read loop
\* ------------------------------------------------------------------------
AllAccepted == \A i \in DOMAIN tx : tx[i].acc

\* the driver answered ready, error or timeout to every call of the command
DriverAnswered ==
    \A i \in DOMAIN calls :
        calls[i].c \in {"nand_erase_block", "nand_read_page"}
            => calls[i].d[1] \in {NAND_READY, NAND_ERROR, NAND_TIMEOUT_ERROR}

\* the command ended with the one response of kind t and value v
EndedWith(t, v) ==
    /\ tx # <<>>
    /\ tx[Len(tx)].t = t
    /\ tx[Len(tx)].v = v
    /\ \A i \in 1..(Len(tx) - 1) : tx[i].t \notin {"ok", "err"}

\* blocks from the start of the request to the end of the chip that the
\* tracker does not list
GoodBlocksAhead ==
    {b \in last.addr..(Chip0.size - 1) : b % Chip0.block_size = 0 /\ b \notin bbt}

EraseServed == last.op = "erase" /\ ValidRequest /\ DriverAnswered /\ AllAccepted

\* C16 as claimed: a valid erase request ends with an ok status, whatever
\* the tracker holds, when the driver answers ready, error or timeout to
\* each block and the transport accepts the responses.
C16_Original == EraseServed => (last.ret = 0 /\ EndedWith("ok", 0))

\* C16 as amended: such an erase ends with an ok status if it is an erase of
\* the whole chip or if from its start to the end of the chip there are
\* len / block_size blocks the tracker does not list; otherwise it ends with
\* the address exceeds chip size error and no ok status.
C16_EraseEnds ==
    EraseServed
        => IF \/ last.len = Chip0.size
              \/ Cardinality(GoodBlocksAhead) * Chip0.block_size >= last.len
           THEN last.ret = 0 /\ EndedWith("ok", 0)
           ELSE /\ last.ret = NP_ERR_ADDR_EXCEEDED
                /\ EndedWith("err", -NP_ERR_ADDR_EXCEEDED)

\* a partial erase skipped a tracked block of its range, the driver timed
\* out on the block erased in its place, and the erase ended with ok
C16_Witness ==
    /\ EraseServed
    /\ last.len < Chip0.size
    /\ \E b \in bbt : InRequest(b)
    /\ \E i \in ErasesOf(calls) : calls[i].d[1] = NAND_TIMEOUT_ERROR
    /\ EndedWith("ok", 0)

LookupsOf(cs) == {i \in DOMAIN cs : cs[i].c = "nand_bad_block_table_lookup"}

\* addresses of the accepted bad-block responses
Reported(ms) == {ms[i].v : i \in {j \in BadBlocksOf(ms) : ms[j].acc}}

\* C17: the tracker gains exactly the blocks a scan reports, is emptied by a
\* successful chip-select and is changed by nothing else, an erase whose
\* driver call fails included; an erase never calls erase-block for a block
\* the tracker lists and sends one bad-block response for each such block
\* it visits.
C17_TrackedNeverErased ==
    [][/\ last'.op = "read_bb" => bbt' = bbt \cup Reported(tx')
       /\ last'.op = "select" => bbt' = IF last'.ret = 0 THEN {} ELSE bbt
       /\ last'.op \notin {"read_bb", "select"} => bbt' = bbt
       /\ last'.op = "erase"
             => /\ \A i \in ErasesOf(calls') :
                       Mul32(calls'[i].a, ChipInfo(prog).page_size) \notin bbt
                /\ \A i \in LookupsOf(calls') :
                       calls'[i].a \in bbt
                           => Cardinality({j \in BadBlocksOf(tx') :
                                             tx'[j].v = calls'[i].a}) = 1]_vars

\* an erase after a scan skipped a tracked block with a bad-block response
\* and reported another block, whose erase the driver failed, which the
\* tracker does not list afterwards
C17_Witness ==
    /\ last.op = "erase"
    /\ \E i, j \in BadBlocksOf(tx) :
           /\ tx[i].v \in bbt
           /\ tx[j].v \notin bbt
    /\ \E i \in ErasesOf(calls) : calls[i].d[1] = NAND_ERROR

ReadsOf(cs) == SelectSeq(cs, LAMBDA c : c.c = "nand_read_page")

DataOf(ms) == SelectSeq(ms, LAMBDA m : m.t = "data")

RECURSIVE SumOf(_)
SumOf(ms) == IF ms = <<>> THEN 0 ELSE Head(ms).v + SumOf(Tail(ms))

\* every data response holds 1 to NP_PACKET_BUF_SIZE - RESP_HDR bytes of one
\* page and was sent when the transport was ready; the responses follow
\* each other in address order without a gap, starting at the request
ChunksInOrder(ds) ==
    \A i \in DOMAIN ds :
        /\ ds[i].v >= 1
        /\ ds[i].v <= NP_PACKET_BUF_SIZE - RESP_HDR
        /\ ds[i].o + ds[i].v <= Chip0.page_size
        /\ ds[i].rdy
        /\ ds[i].a * Chip0.page_size + ds[i].o
              = last.addr + SumOf(SubSeq(ds, 1, i - 1))

\* read-page is called for the pages from the start of the request, in order
PagesInOrder(rs) ==
    \A i \in DOMAIN rs : rs[i].a = (last.addr \div Chip0.page_size) + i - 1

ReadIsWhole ==
    /\ Len(ReadsOf(calls)) * Chip0.page_size = last.len
    /\ SumOf(DataOf(tx)) = last.len

ReadWellFormed == PagesInOrder(ReadsOf(calls)) /\ ChunksInOrder(DataOf(tx))

ScanReads == SelectSeq(calls, LAMBDA c : c.c = "nand_read_data")

ScanAdds == SelectSeq(calls, LAMBDA c : c.c = "nand_bad_block_table_add")

PagesPerBlock == Chip0.block_size \div Chip0.page_size

BlockOf(r) == r.a \div PagesPerBlock

\* the marker read is not 0xFF
MarkedBad(r) == r.d[1] = NAND_READY /\ r.d[2] # NP_NAND_GOOD_BLOCK_MARK

\* the read settles its block: a bad marker, or the second page with a good one
BlockDone(r) ==
    r.d[1] = NAND_READY /\ (MarkedBad(r) \/ r.a % PagesPerBlock = 1)

\* the scan reads the first page of block 0, then after a good first page
\* the second page of the block and else the first page of the next block,
\* and nothing after a read that failed
ScanOrder(rs) ==
    \A i \in DOMAIN rs :
        /\ BlockOf(rs[i]) < Chip0.size \div Chip0.block_size
        /\ IF i = 1 THEN rs[i].a = 0
           ELSE /\ rs[i - 1].d[1] = NAND_READY
                /\ rs[i].a = IF BlockDone(rs[i - 1])
                             THEN (BlockOf(rs[i - 1]) + 1) * PagesPerBlock
                             ELSE rs[i - 1].a + 1

\* block addresses of the reads that found a bad marker, in order
BadBlocksRead ==
    LET bad == SelectSeq(ScanReads, MarkedBad)
    IN  [i \in DOMAIN bad |-> BlockOf(bad[i]) * Chip0.block_size]

AddrsOf(ms) == [i \in DOMAIN ms |-> ms[i].v]

BadBlockMsgs == SelectSeq(tx, LAMBDA m : m.t = "bb")

\* every block was settled and the transport accepted every report
ScanComplete ==
    /\ ScanReads # <<>>
    /\ BlockOf(ScanReads[Len(ScanReads)]) = (Chip0.size \div Chip0.block_size) - 1
    /\ BlockDone(ScanReads[Len(ScanReads)])
    /\ \A i \in BadBlocksOf(tx) : tx[i].acc

Terminals ==
    {i \in DOMAIN tx :
        \/ tx[i].t \in {"ok", "err", "id"}
        \/ tx[i].t = "data" /\ last.op = "read" /\ last.ret = 0 /\ i = Len(tx)}

IsCommand == last.op \notin {"none", "tick"}

\* C11 as claimed: every command drained sends exactly one terminal
\* response, a write-data command that reaches no ack threshold included.
C11_Original == IsCommand => Cardinality(Terminals) = 1

\* C11 as amended: a write-data command that succeeds sends no terminal
\* response and at most one write ack; every other command sends exactly
\* one terminal response, after all its other responses.
C11_OneTerminalResponse ==
    IsCommand
        => IF last.op = "write_data" /\ last.ret = 0
           THEN /\ Terminals = {}
                /\ \A i \in DOMAIN tx : tx[i].t \in {"ack", "bb"}
                /\ Cardinality(AcksOf(tx)) <= 1
           ELSE /\ Terminals = {Len(tx)}
                /\ tx # <<>>

\* a write-data command that filled half a page and sent nothing
C11_Witness ==
    /\ last.op = "write_data"
    /\ last.ret = 0
    /\ tx = <<>>
    /\ prog.bytes_written > prog.bytes_ack

\* C12: a chip-select with an unknown index clears the chip, sends the chip
\* not found error alone and calls neither nand_init nor the tracker; one
\* with a known index calls both, empties the tracker, stores the chip and
\* sends ok; only a chip-select changes the chip, so after a failed one every
\* other command is answered chip not selected until a chip-select succeeds.
C12_SelectSetsOrClears ==
    [][/\ last'.op = "select"
             => IF last'.chip_num \in DOMAIN chip_db
                THEN /\ prog' = [prog EXCEPT !.chip_info = last'.chip_num]
                     /\ bbt' = {}
                     /\ [i \in DOMAIN calls' |-> calls'[i].c]
                           = <<"nand_init", "nand_bad_block_table_init">>
                     /\ tx' = OkMsg
                     /\ last'.ret = 0
                ELSE /\ prog' = [prog EXCEPT !.chip_info = NULL]
                     /\ bbt' = bbt
                     /\ calls' = <<>>
                     /\ tx' = ErrMsg(NP_ERR_CHIP_NOT_FOUND)
                     /\ last'.ret = NP_ERR_CHIP_NOT_FOUND
       /\ last'.op # "select" => prog'.chip_info = prog.chip_info
       /\ (prog.chip_info = NULL /\ last'.op \notin {"select", "tick"})
             => /\ last'.ret = NP_ERR_CHIP_NOT_SEL
                /\ tx' = ChipNotSelected]_vars

\* a chip-select with an unknown index cleared a chip that was selected and
\* left the tracker, which a scan had filled, as it was
C12_Witness ==
    /\ last.op = "select"
    /\ last.chip_num \notin DOMAIN chip_db
    /\ last.chip0 # NULL
    /\ prog.chip_info = NULL
    /\ bbt # {}
    /\ tx = ErrMsg(NP_ERR_CHIP_NOT_FOUND)


\* ------------------------------------------------------------------------
\* The declared range and the write in flight
\* ------------------------------------------------------------------------
\* C21: between a successful write-start(addr, len) and the next one, every
\* page handed to the flash write path starts inside [addr, addr+len), the
\* write-data commands that come after the declared length was reached or
\* exceeded included.
C21_PagesWithinDeclaredRange ==
    (sess.starts > 0 /\ sess.clean /\ SessionInRange)
        => \A i \in DOMAIN sess.log :
              LET a == sess.log[i].page * sess.page_size
              IN  sess.addr <= a /\ a < sess.addr + sess.len

\* driver operations other than the page write and its status poll
OtherDriverOps ==
    {"nand_read_id", "nand_erase_block", "nand_read_page", "nand_read_data",
     "nand_init"}

\* C22: a command drained while a page write is in flight starts no other
\* driver operation (erase, page read, read id, marker read, flash
\* re-initialization) before a status poll has resolved that write, and a
\* chip-select that succeeds does not leave the in-flight flag set.
C22_NoDriverOpWhileInFlight ==
    [][prog.nand_wr_in_progress # 0
          => /\ \A i \in DOMAIN calls' :
                    calls'[i].c \in OtherDriverOps
                        => \E j \in 1..(i - 1) :
                              /\ calls'[j].c = "nand_read_status"
                              /\ calls'[j].d[1] # NAND_BUSY
             /\ (last'.op = "select" /\ last'.ret = 0)
                    => prog'.nand_wr_in_progress = 0]_vars

====
